---- MODULE Spec2Model ----
(***************************************************************************)
(* A model of src/monte-carlo-code.py: the PortfolioOptimizer class        *)
(* (constructor, fetch_data, generate_portfolio,                           *)
(* calculate_portfolio_metrics, run_monte_carlo, optimize_portfolio) and   *)
(* the __main__ script that chains them and writes the two result files.   *)
(*                                                                         *)
(* Floating point.  A float64 is a record: [k |-> "fin", v |-> n] is the   *)
(* finite value n / SCALE (fixed point), [k |-> "nan"] is NaN and          *)
(* [k |-> "inf", v |-> +1 / -1] is +inf / -inf.  Arithmetic follows        *)
(* IEEE-754 as numpy applies it: a division by zero raises nothing, it     *)
(* yields inf or NaN, and NaN propagates.                                  *)
(*                                                                         *)
(* External collaborators.  yfinance is a deterministic market (Close)     *)
(* that may fail; numpy's random source is a choice of draws; scipy's      *)
(* minimize is a choice of a returned point, a success flag, or a raise.   *)
(***************************************************************************)
EXTENDS Integers, Sequences, FiniteSets, TLC

\* ---------------------------------------------------------------- bounds
\* Longest ticker list given to the constructor.
MaxTickers == 2
\* Trading dates the market knows: 1 .. MaxDate.
MaxDate == 3
\* Largest num_simulations passed to run_monte_carlo.
MaxSim == 2
\* The num_simulations of the __main__ script (10000 in the source).
MainSim == 1

\* Fixed-point unit of the float model: 1.0 is SCALE.
SCALE == 1000

\* ------------------------------------------------------ program constants
\* portfolio_size default and the value __main__ passes.
PortfolioSize == 10000000
\* Annualisation factor of calculate_portfolio_metrics.
PeriodsPerYear == 252
\* risk_free_rate default of optimize_portfolio, 0.02, in fixed point.
DefaultRiskFreeRate == 20

\* ----------------------------------------------------------- float model
Fin(n) == [k |-> "fin", v |-> n]
NaN == [k |-> "nan", v |-> 0]
Inf(sign) == [k |-> "inf", v |-> sign]

IsFin(a) == a.k = "fin"
IsNaN(a) == a.k = "nan"
IsInf(a) == a.k = "inf"

Sign(n) == IF n > 0 THEN 1 ELSE IF n < 0 THEN -1 ELSE 0

FNeg(a) == IF IsNaN(a) THEN NaN ELSE [a EXCEPT !.v = -a.v]

FAdd(a, b) ==
    IF IsNaN(a) \/ IsNaN(b) THEN NaN
    ELSE IF IsInf(a) /\ IsInf(b) THEN (IF a.v = b.v THEN a ELSE NaN)
    ELSE IF IsInf(a) THEN a
    ELSE IF IsInf(b) THEN b
    ELSE Fin(a.v + b.v)

FSub(a, b) == FAdd(a, FNeg(b))

FMul(a, b) ==
    IF IsNaN(a) \/ IsNaN(b) THEN NaN
    ELSE IF IsInf(a) \/ IsInf(b)
         THEN (IF Sign(a.v) * Sign(b.v) = 0 THEN NaN ELSE Inf(Sign(a.v) * Sign(b.v)))
    ELSE Fin((a.v * b.v) \div SCALE)

FDiv(a, b) ==
    IF IsNaN(a) \/ IsNaN(b) THEN NaN
    ELSE IF IsInf(a) /\ IsInf(b) THEN NaN
    ELSE IF IsInf(a) THEN Inf(IF b.v < 0 THEN -a.v ELSE a.v)
    ELSE IF IsInf(b) THEN Fin(0)
    ELSE IF b.v = 0 THEN (IF a.v = 0 THEN NaN ELSE Inf(Sign(a.v)))
    ELSE Fin((a.v * SCALE) \div b.v)

RECURSIVE IsqrtIter(_, _, _)
IsqrtIter(n, lo, hi) ==
    IF lo >= hi THEN lo
    ELSE LET mid == (lo + hi + 1) \div 2
         IN  IF mid * mid <= n THEN IsqrtIter(n, mid, hi)
             ELSE IsqrtIter(n, lo, mid - 1)

\* floor(sqrt(n)) for 0 <= n < 2^31
Isqrt(n) == IsqrtIter(n, 0, IF n < 46340 THEN n ELSE 46340)

FSqrt(a) ==
    IF IsNaN(a) THEN NaN
    ELSE IF IsInf(a) THEN (IF a.v > 0 THEN a ELSE NaN)
    ELSE IF a.v < 0 THEN NaN
    ELSE Fin(Isqrt(a.v * SCALE))

RECURSIVE FSumTo(_, _)
FSumTo(xs, n) == IF n = 0 THEN Fin(0) ELSE FAdd(FSumTo(xs, n - 1), xs[n])

\* numpy's sum / dot accumulation over an ndarray: NaN propagates.
FSum(xs) == FSumTo(xs, Len(xs))

\* ndarray scalar product np.dot(a, b)
Dot(a, b) == FSum([i \in 1..Len(a) |-> FMul(a[i], b[i])])

RECURSIVE SkipNaSumTo(_, _)
SkipNaSumTo(xs, n) ==
    IF n = 0 THEN Fin(0)
    ELSE IF IsNaN(xs[n]) THEN SkipNaSumTo(xs, n - 1)
    ELSE FAdd(SkipNaSumTo(xs, n - 1), xs[n])

\* np.sum of a pandas Series dispatches to Series.sum, whose default is
\* skipna=True: NaN entries are left out, an all-NaN Series sums to 0.0.
SeriesSum(xs) == SkipNaSumTo(xs, Len(xs))

\* ------------------------------------------------------- optional values
\* Python's None, and a value held by an attribute or a local.
None == [isNone |-> TRUE]
Some(x) == [isNone |-> FALSE, v |-> x]

\* ------------------------------------------- the market behind yfinance
\* Tickers the market lists.
Tickers == {"SPY", "AGG", "GLD"}

Dates == 1..MaxDate

\* start_date values passed to fetch_data
StartDates == {1, 2}

\* First date a ticker has a price (GLD is listed one date later).
Listed(ticker) == IF ticker = "GLD" THEN 2 ELSE 1

RECURSIVE Pow2(_)
Pow2(n) == IF n = 0 THEN 1 ELSE 2 * Pow2(n - 1)

\* Closing price: SPY alternates 1, 2, 1, ...; AGG stays at 2; GLD doubles
\* every date.
Close(ticker, d) ==
    IF ticker = "SPY" THEN Fin((IF d % 2 = 1 THEN 1 ELSE 2) * SCALE)
    ELSE IF ticker = "AGG" THEN Fin(2 * SCALE)
    ELSE Fin(Pow2(d - 1) * SCALE)

\* stock.history(start=, end=)['Close']: the closes of the listed dates in
\* [start, end), as a function of the date.
History(ticker, start_date, end_date) ==
    [d \in {x \in Dates : x >= Listed(ticker) /\ start_date <= x /\ x < end_date}
        |-> Close(ticker, d)]

RECURSIVE SortedSeq(_)
SortedSeq(S) ==
    IF S = {} THEN <<>>
    ELSE LET m == CHOOSE x \in S : \A y \in S : x <= y
         IN  <<m>> \o SortedSeq(S \ {m})

\* ticker lists the constructor is given: distinct tickers, 1..MaxTickers
Universes ==
    {u \in UNION {[1..n -> Tickers] : n \in 1..MaxTickers} :
        \A i, j \in 1..Len(u) : i # j => u[i] # u[j]}

\* ------------------------------------------------------------ fetch_data
\* The index of `data` after the loop of lines 28-31: assigning a Series to
\* a frame whose index is empty takes the Series' index, any later column is
\* aligned to the index already there.
FrameIndex(tickers, start_date, end_date) ==
    LET nonempty == {i \in 1..Len(tickers) :
                        DOMAIN History(tickers[i], start_date, end_date) # {}}
    IN  IF nonempty = {} THEN {}
        ELSE DOMAIN History(tickers[CHOOSE i \in nonempty : \A j \in nonempty : i <= j],
                            start_date, end_date)

\* data[ticker] at date d: the close, NaN where the ticker has none.
Cell(ticker, start_date, end_date, d) ==
    LET hist == History(ticker, start_date, end_date)
    IN  IF d \in DOMAIN hist THEN hist[d] ELSE NaN

\* data.pct_change() at date d of the index: (p[d] - p[d-1]) / p[d-1], NaN in
\* the first row and wherever a price is missing.
PctChange(ticker, start_date, end_date, index, d) ==
    IF (d - 1) \notin index THEN NaN
    ELSE LET p == Cell(ticker, start_date, end_date, d)
             q == Cell(ticker, start_date, end_date, d - 1)
         IN  FDiv(FSub(p, q), q)

\* data.pct_change().dropna(): the rows without any NaN, in date order; a row
\* is the sequence of the tickers' returns.
ReturnsData(tickers, start_date, end_date) ==
    LET index == FrameIndex(tickers, start_date, end_date)
        kept  == {d \in index : \A i \in 1..Len(tickers) :
                     ~IsNaN(PctChange(tickers[i], start_date, end_date, index, d))}
        dates == SortedSeq(kept)
    IN  [r \in 1..Len(dates) |->
            [i \in 1..Len(tickers) |->
                PctChange(tickers[i], start_date, end_date, index, dates[r])]]

Column(rows, i) == [r \in 1..Len(rows) |-> rows[r][i]]

\* returns_data.mean(): per column, sum / count; NaN for an empty column.
Mean(rows, n) ==
    [i \in 1..n |-> FDiv(FSum(Column(rows, i)), Fin(Len(rows) * SCALE))]

\* returns_data.cov(): sample covariance with ddof = 1,
\* sum((x - mx) * (y - my)) / (L - 1); with L < 2 the divisor is taken as 0
\* and every entry is 0 / 0 = NaN.
Cov(rows, n) ==
    LET L    == Len(rows)
        mean == Mean(rows, n)
        dev(i) == [r \in 1..L |-> FSub(rows[r][i], mean[i])]
        fact == IF L - 1 > 0 THEN L - 1 ELSE 0
    IN  [i \in 1..n |-> [j \in 1..n |->
            FDiv(Dot(dev(i), dev(j)), Fin(fact * SCALE))]]

\* ---------------------------------------------------- generate_portfolio
\* values np.random.random may return for one asset: 0.0 and 0.5
DrawValues == {0, SCALE \div 2}

\* outcomes of np.random.random(n): every asset draws 0.0, every asset draws
\* 0.5, or one asset draws 0.5 and the others 0.0
Draws(n) ==
    {d \in [1..n -> {Fin(x) : x \in DrawValues}] :
        \/ \A i, j \in 1..n : d[i] = d[j]
        \/ Cardinality({i \in 1..n : d[i] # Fin(0)}) = 1}

\* dict(zip(keys, vals)) for distinct keys, and list(d.values()), which
\* lists the values in insertion order, the order of the keys.
Zip(keys, vals) ==
    [key \in {keys[i] : i \in 1..Len(keys)} |->
        vals[CHOOSE i \in 1..Len(keys) : keys[i] = key]]

DictValues(d, keys) == [i \in 1..Len(keys) |-> d[keys[i]]]

\* weights = draw; weights /= np.sum(weights); the result as a dict keyed
\* by ticker.
generate_portfolio(s, draw) ==
    LET total == FSum(draw)
    IN  Zip(s.tickers, [i \in 1..Len(s.tickers) |-> FDiv(draw[i], total)])

\* ------------------------------------------ calculate_portfolio_metrics
\* cov_matrix * 252, then np.dot(matrix, weights)
MatVec(m, w) == [i \in 1..Len(m) |-> Dot(m[i], w)]

AnnualisedCov(m) ==
    [i \in 1..Len(m) |-> [j \in 1..Len(m) |->
        FMul(m[i][j], Fin(PeriodsPerYear * SCALE))]]

\* [raised, ret, vol, sharpe]: None * ndarray raises TypeError; every float
\* operation, the final division included, follows IEEE-754.
calculate_portfolio_metrics(s, weights) ==
    IF s.avg_returns.isNone \/ s.cov_matrix.isNone
    THEN [raised |-> "TypeError", ret |-> NaN, vol |-> NaN, sharpe |-> NaN]
    ELSE LET avg == s.avg_returns.v
             portfolio_return ==
                 FMul(SeriesSum([i \in 1..Len(weights) |-> FMul(avg[i], weights[i])]),
                      Fin(PeriodsPerYear * SCALE))
             portfolio_volatility ==
                 FSqrt(Dot(weights, MatVec(AnnualisedCov(s.cov_matrix.v), weights)))
             sharpe_ratio == FDiv(portfolio_return, portfolio_volatility)
         IN  [raised |-> "none", ret |-> portfolio_return,
              vol |-> portfolio_volatility, sharpe |-> sharpe_ratio]

\* ------------------------------------------------------------- the state
VARIABLES
    self,    \* the PortfolioOptimizer instance: its attributes
    frame,   \* the activation of run_monte_carlo in progress, or Idle
    ret,     \* the last call: its arguments and how it ended (its value, the
             \* exception it raised, or "pending" while it runs)
    main,    \* the __main__ script: its position and its locals
    files    \* data/results/: what each output file holds, None if absent

vars == <<self, frame, ret, main, files>>

Idle == [op |-> "idle"]

\* PortfolioOptimizer.__init__
Construct(tickers, portfolio_size) ==
    [tickers |-> tickers, portfolio_size |-> portfolio_size,
     returns_data |-> None, cov_matrix |-> None, avg_returns |-> None]

Init ==
    /\ self \in {Construct(u, PortfolioSize) : u \in Universes}
    /\ frame = Idle
    /\ ret = [op |-> "__init__", args |-> [portfolio_size |-> PortfolioSize],
              raised |-> "none", value |-> None, trace |-> [installed |-> FALSE]]
    /\ main = [pc |-> "fetch", failed |-> "none",
               simulation_results |-> None, optimal_portfolio |-> None]
    /\ files = [simulation_results |-> None, optimal_portfolio |-> None]

\* ------------------------------------------------------------ fetch_data
\* lines 34-36: the three values fetch_data derives from the price table
Statistics(tickers, start_date, end_date) ==
    LET rows == ReturnsData(tickers, start_date, end_date)
    IN  [returns_data |-> rows,
         cov_matrix |-> Cov(rows, Len(tickers)),
         avg_returns |-> Mean(rows, Len(tickers))]

\* Statistics, tabulated once per ticker list and date range.
StatisticsTable ==
    [u \in Universes |-> [start_date \in StartDates |-> [end_date \in 1..(MaxDate + 1) |->
        Statistics(u, start_date, end_date)]]]

\* lines 34-36: the three attributes fetch_data assigns
fetch_data(s, start_date, end_date) ==
    LET stats == StatisticsTable[s.tickers][start_date][end_date]
    IN  [s EXCEPT !.returns_data = Some(stats.returns_data),
                  !.cov_matrix = Some(stats.cov_matrix),
                  !.avg_returns = Some(stats.avg_returns)]

\* One call of fetch_data.  provider_ok = FALSE: stock.history raises in the
\* loop, before any attribute is assigned.
DoFetchData(start_date, end_date, provider_ok) ==
    /\ frame = Idle
    /\ self' = IF provider_ok THEN fetch_data(self, start_date, end_date) ELSE self
    /\ ret' = [op |-> "fetch_data",
               args |-> [start_date |-> start_date, end_date |-> end_date],
               raised |-> IF provider_ok THEN "none" ELSE "ProviderError",
               value |-> None,
               trace |-> [installed |-> provider_ok]]
    /\ frame' = frame

\* -------------------------------------------------------- run_monte_carlo
\* lines 71-78: one row of the results list
Score(s, weights) ==
    LET m == calculate_portfolio_metrics(s, weights)
    IN  [raised |-> m.raised,
         row |-> [return |-> m.ret, volatility |-> m.vol,
                  sharpe_ratio |-> m.sharpe, weights |-> weights]]

Trial(s, draw) == Score(s, DictValues(generate_portfolio(s, draw), s.tickers))

\* A results list that keeps one row per weight vector (deduplication).
AppendRowDedup(results, row) ==
    IF \E i \in 1..Len(results) : results[i].weights = row.weights
    THEN results
    ELSE Append(results, row)

\* line 73: results.append(row)
AppendRow(results, row) == Append(results, row)

\* line 68: results = []
DoMonteCarloCall(num_simulations) ==
    /\ frame = Idle
    /\ frame' = [op |-> "run_monte_carlo", num_simulations |-> num_simulations,
                 i |-> 0, results |-> <<>>, draws |-> <<>>]
    /\ ret' = [op |-> "run_monte_carlo",
               args |-> [num_simulations |-> num_simulations],
               raised |-> "pending", value |-> None, trace |-> [draws |-> <<>>]]
    /\ self' = self

\* lines 70-78: one pass of the loop body; an exception ends the call
DoMonteCarloTrial(draw) ==
    /\ frame.op = "run_monte_carlo"
    /\ frame.i < frame.num_simulations
    /\ LET t == Trial(self, draw)
       IN  IF t.raised # "none"
           THEN /\ frame' = Idle
                /\ ret' = [op |-> "run_monte_carlo",
                           args |-> [num_simulations |-> frame.num_simulations],
                           raised |-> t.raised, value |-> None,
                           trace |-> [draws |-> Append(frame.draws, draw)]]
           ELSE /\ frame' = [frame EXCEPT !.i = @ + 1,
                                          !.results = AppendRow(@, t.row),
                                          !.draws = Append(@, draw)]
                /\ ret' = ret
    /\ self' = self

\* A run_monte_carlo that keeps its rows on the instance before returning.
DoMonteCarloReturnStoring ==
    /\ frame.op = "run_monte_carlo"
    /\ frame.i >= frame.num_simulations
    /\ ret' = [op |-> "run_monte_carlo",
               args |-> [num_simulations |-> frame.num_simulations],
               raised |-> "none", value |-> Some(frame.results),
               trace |-> [draws |-> frame.draws]]
    /\ frame' = Idle
    /\ self' = [a \in DOMAIN self \cup {"simulation_results"} |->
                   IF a = "simulation_results" THEN Some(frame.results) ELSE self[a]]

\* line 80: range(num_simulations) is exhausted, the rows are returned
DoMonteCarloReturn ==
    /\ frame.op = "run_monte_carlo"
    /\ frame.i >= frame.num_simulations
    /\ ret' = [op |-> "run_monte_carlo",
               args |-> [num_simulations |-> frame.num_simulations],
               raised |-> "none", value |-> Some(frame.results),
               trace |-> [draws |-> frame.draws]]
    /\ frame' = Idle
    /\ self' = self

\* ----------------------------------------------------- optimize_portfolio
\* An objective on the excess return: -(return - risk_free_rate) / volatility.
neg_sharpe_ratio_excess(s, risk_free_rate, weights) ==
    LET m == calculate_portfolio_metrics(s, weights)
    IN  [raised |-> m.raised, f |-> FNeg(FDiv(FSub(m.ret, risk_free_rate), m.vol))]

\* lines 92-94: the objective handed to the solver; risk_free_rate is in
\* scope and not used
neg_sharpe_ratio(s, risk_free_rate, weights) ==
    LET m == calculate_portfolio_metrics(s, weights)
    IN  [raised |-> m.raised, f |-> FNeg(m.sharpe)]

\* line 102: np.array([1/len(tickers)] * len(tickers))
InitialWeights(s) ==
    [i \in 1..Len(s.tickers) |-> FDiv(Fin(SCALE), Fin(Len(s.tickers) * SCALE))]

\* Points scipy's minimize may return for n assets: the points of the
\* constraint set (sum = 1, 0 <= x_i <= 1) on the grid the draws span, the
\* initial guess among them.
SolverPoints ==
    [n \in 1..MaxTickers |->
        {w \in {[i \in 1..n |-> FDiv(d[i], FSum(d))] : d \in Draws(n)} :
            \A i \in 1..n : IsFin(w[i])}]

\* What the minimize call of lines 105-111 may do once the objective has been
\* evaluated at the initial guess: return an OptimizeResult (x, success), or
\* raise.
SolverOutcomes(s) ==
    [raised : {"none"}, x : SolverPoints[Len(s.tickers)], success : BOOLEAN]
        \cup {[raised |-> "SolverError", x |-> InitialWeights(s), success |-> FALSE]}

\* lines 113-121: the returned dict
OptimalPortfolio(s, x) ==
    LET m == calculate_portfolio_metrics(s, x)
    IN  [weights |-> Zip(s.tickers, x), return |-> m.ret,
         volatility |-> m.vol, sharpe_ratio |-> m.sharpe]

\* One call of optimize_portfolio.  The solver evaluates the objective at the
\* initial guess (an exception of the objective leaves minimize and the
\* call) and at the point it returns; trace.evals records both evaluations.
DoOptimizePortfolio(risk_free_rate) ==
    LET x0 == InitialWeights(self)
        objective == [x \in SolverPoints[Len(self.tickers)] |->
                         neg_sharpe_ratio(self, risk_free_rate, x)]
        result == [x \in SolverPoints[Len(self.tickers)] |-> OptimalPortfolio(self, x)]
    IN  /\ frame = Idle
        /\ \E outcome \in SolverOutcomes(self) :
              LET raised == IF objective[x0].raised # "none" THEN objective[x0].raised
                            ELSE outcome.raised
              IN  ret' = [op |-> "optimize_portfolio",
                          args |-> [risk_free_rate |-> risk_free_rate],
                          raised |-> raised,
                          value |-> IF raised # "none" THEN None
                                    ELSE Some(result[outcome.x]),
                          trace |-> IF raised # "none"
                                    THEN [evals |-> {}, x |-> x0, success |-> FALSE]
                                    ELSE [evals |-> {[w |-> x0, f |-> objective[x0].f],
                                                     [w |-> outcome.x,
                                                      f |-> objective[outcome.x].f]},
                                          x |-> outcome.x,
                                          success |-> outcome.success]]
        /\ UNCHANGED <<self, frame>>

\* ------------------------------------------- calls in any order (library)
RiskFreeRates == {0, DefaultRiskFreeRate}

FetchData ==
    /\ \E start_date \in StartDates, end_date \in 1..(MaxDate + 1), provider_ok \in BOOLEAN :
           /\ start_date < end_date
           /\ DoFetchData(start_date, end_date, provider_ok)
    /\ UNCHANGED <<main, files>>

MonteCarloCall ==
    /\ \E num_simulations \in (-1)..MaxSim : DoMonteCarloCall(num_simulations)
    /\ UNCHANGED <<main, files>>

MonteCarloTrial ==
    /\ \E draw \in Draws(Len(self.tickers)) : DoMonteCarloTrial(draw)
    /\ UNCHANGED <<main, files>>

MonteCarloReturn ==
    /\ DoMonteCarloReturn
    /\ UNCHANGED <<main, files>>

OptimizePortfolio ==
    /\ \E risk_free_rate \in RiskFreeRates : DoOptimizePortfolio(Fin(risk_free_rate))
    /\ UNCHANGED <<main, files>>

Next ==
    \/ FetchData
    \/ MonteCarloCall
    \/ MonteCarloTrial
    \/ MonteCarloReturn
    \/ OptimizePortfolio

Spec == Init /\ [][Next]_vars

\* --------------------------------------------------- the __main__ script
\* A script that goes on to its next statement whatever the last one raised.
MainAfterSwallow(raised, next_pc) == next_pc

\* An exception no one catches ends the script: the statements after the
\* failing one do not run.
MainAfter(raised, next_pc) == IF raised # "none" THEN "aborted" ELSE next_pc

MainStep(step, raised, next_pc) ==
    [main EXCEPT !.pc = MainAfter(raised, next_pc),
                 !.failed = IF raised # "none" THEN step ELSE @]

\* line 132
MainFetch ==
    /\ main.pc = "fetch"
    /\ \E provider_ok \in BOOLEAN : DoFetchData(1, MaxDate + 1, provider_ok)
    /\ main' = MainStep("fetch", ret'.raised, "mc")
    /\ files' = files

\* line 135, entering run_monte_carlo
MainMonteCarloCall ==
    /\ main.pc = "mc"
    /\ DoMonteCarloCall(MainSim)
    /\ main' = [main EXCEPT !.pc = "mc_loop"]
    /\ files' = files

\* line 135, inside the loop of run_monte_carlo
MainMonteCarloTrial ==
    /\ main.pc = "mc_loop"
    /\ \E draw \in Draws(Len(self.tickers)) : DoMonteCarloTrial(draw)
    /\ main' = IF frame' = Idle THEN MainStep("mc", ret'.raised, "opt") ELSE main
    /\ files' = files

\* line 135, the assignment of the returned frame
MainMonteCarloReturn ==
    /\ main.pc = "mc_loop"
    /\ DoMonteCarloReturn
    /\ main' = [main EXCEPT !.pc = "opt", !.simulation_results = ret'.value]
    /\ files' = files

\* line 138
MainOptimize ==
    /\ main.pc = "opt"
    /\ DoOptimizePortfolio(Fin(DefaultRiskFreeRate))
    /\ main' = [MainStep("opt", ret'.raised, "save1")
                    EXCEPT !.optimal_portfolio = ret'.value]
    /\ files' = files

\* line 141: to_csv writes the file, or raises (no data/results directory)
MainSaveSimulation ==
    /\ main.pc = "save1"
    /\ \E written \in BOOLEAN :
          /\ files' = IF written
                      THEN [files EXCEPT !.simulation_results = Some(main.simulation_results)]
                      ELSE files
          /\ main' = MainStep("save1", IF written THEN "none" ELSE "OSError", "save2")
    /\ UNCHANGED <<self, frame, ret>>

\* line 142
MainSaveOptimal ==
    /\ main.pc = "save2"
    /\ \E written \in BOOLEAN :
          /\ files' = IF written
                      THEN [files EXCEPT !.optimal_portfolio = Some(main.optimal_portfolio)]
                      ELSE files
          /\ main' = MainStep("save2", IF written THEN "none" ELSE "OSError", "done")
    /\ UNCHANGED <<self, frame, ret>>

MainNext ==
    \/ MainFetch
    \/ MainMonteCarloCall
    \/ MainMonteCarloTrial
    \/ MainMonteCarloReturn
    \/ MainOptimize
    \/ MainSaveSimulation
    \/ MainSaveOptimal

MainSpec == Init /\ [][MainNext]_vars

\* ================================================================ claims
\* The rows run_monte_carlo has appended so far, or has returned.
Rows ==
    IF frame.op = "run_monte_carlo" THEN frame.results
    ELSE IF ret.op = "run_monte_carlo" /\ ret.raised = "none" THEN ret.value.v
    ELSE <<>>

Returned(op) == ret.op = op /\ ret.raised = "none"

\* One weight per asset, each finite and >= 0, summing to 1 within one
\* fixed-point unit per asset.
IsWeightVector(w, n) ==
    /\ Len(w) = n
    /\ \A i \in 1..n : IsFin(w[i]) /\ w[i].v >= 0
    /\ LET total == FSum(w)
       IN  IsFin(total) /\ total.v - SCALE <= n /\ SCALE - total.v <= n

\* C1: every weight vector a run_monte_carlo trial scores has one weight per
\* asset, each weight nonnegative, and the weights sum to 1, whatever the
\* draws were (the all-zero draw included).
C1_SampledWeightsValid ==
    \A i \in 1..Len(Rows) : IsWeightVector(Rows[i].weights, Len(self.tickers))

\* C2: a run_monte_carlo call with num_simulations <= 0 ends with an
\* InvalidArgumentError and returns nothing.
C2_NonPositiveCountRejected ==
    (ret.op = "run_monte_carlo" /\ ret.raised # "pending"
        /\ ret.args.num_simulations <= 0)
    => (ret.raised = "InvalidArgumentError" /\ ret.value.isNone)

\* C3: a run_monte_carlo(n) call with n >= 1 that returns, returns exactly n
\* rows, the i-th row being the weights and metrics of the i-th draw.
C3_ExactlyNRowsInDrawOrder ==
    (Returned("run_monte_carlo") /\ ret.args.num_simulations >= 1)
    => /\ Len(ret.value.v) = ret.args.num_simulations
       /\ Len(ret.trace.draws) = ret.args.num_simulations
       /\ \A i \in 1..ret.args.num_simulations :
              ret.value.v[i] = Trial(self, ret.trace.draws[i]).row

\* C3 witness: a two-trial run has returned two different rows.
C3_Witness ==
    /\ Returned("run_monte_carlo")
    /\ ret.args.num_simulations = 2
    /\ Len(ret.value.v) = 2
    /\ ret.value.v[1] # ret.value.v[2]
    /\ IsFin(ret.value.v[1].sharpe_ratio)

\* Finite statistics and finite weights: the inputs of a scoring that can
\* only go wrong in the division.
FiniteInputs(weights) ==
    /\ ~self.avg_returns.isNone
    /\ \A i \in 1..Len(self.tickers) :
          /\ IsFin(self.avg_returns.v[i])
          /\ IsFin(weights[i])
          /\ \A j \in 1..Len(self.tickers) : IsFin(self.cov_matrix.v[i][j])

\* C4: no row of run_monte_carlo and no result of optimize_portfolio holds a
\* volatility of exactly 0 (that case raises a DivisionByZeroError instead),
\* and none scored from finite statistics and weights holds a Sharpe ratio
\* that is infinite or NaN.
C4_NoInfOrNaNSharpe ==
    /\ \A i \in 1..Len(Rows) :
          /\ Rows[i].volatility # Fin(0)
          /\ FiniteInputs(Rows[i].weights) => IsFin(Rows[i].sharpe_ratio)
    /\ Returned("optimize_portfolio")
          => /\ ret.value.v.volatility # Fin(0)
             /\ FiniteInputs(ret.trace.x) => IsFin(ret.value.v.sharpe_ratio)

\* C5: the result of optimize_portfolio carries a convergence flag equal to
\* the solver's success, and its weights are a valid weight vector.
C5_ConvergenceFlag ==
    Returned("optimize_portfolio")
    => /\ "converged" \in DOMAIN ret.value.v
       /\ ret.value.v.converged = ret.trace.success
       /\ IsWeightVector(DictValues(ret.value.v.weights, self.tickers),
                         Len(self.tickers))

\* C6: a fetch_data call whose price table leaves fewer than 2 return rows
\* ends with an InsufficientDataError and installs no statistics.
C6_InsufficientDataRejected ==
    (ret.op = "fetch_data" /\ ret.raised # "ProviderError"
        /\ Len(ReturnsData(self.tickers, ret.args.start_date, ret.args.end_date)) < 2)
    => (ret.raised = "InsufficientDataError" /\ ~ret.trace.installed)

\* C7: in the main run a file is written only after fetch_data,
\* run_monte_carlo and optimize_portfolio have all returned, the simulation
\* file holds the complete result (MainSim rows), and a run in which one of
\* the three steps raised has aborted with neither file written.
C7_NoOutputUnlessAllSucceeded ==
    /\ (~files.simulation_results.isNone \/ ~files.optimal_portfolio.isNone)
          => /\ ~self.avg_returns.isNone
             /\ ~main.simulation_results.isNone
             /\ ~main.optimal_portfolio.isNone
             /\ main.failed \notin {"fetch", "mc", "opt"}
    /\ ~files.simulation_results.isNone
          => /\ files.simulation_results.v = main.simulation_results
             /\ ~main.simulation_results.isNone
             /\ Len(main.simulation_results.v) = MainSim
    /\ main.failed \in {"fetch", "mc", "opt"}
          => /\ main.pc = "aborted"
             /\ files.simulation_results.isNone
             /\ files.optimal_portfolio.isNone

\* C7 witness: the simulation returned its rows, the optimization raised, and
\* the run is aborted with nothing written.
C7_Witness ==
    /\ main.pc = "aborted"
    /\ main.failed = "opt"
    /\ ~main.simulation_results.isNone
    /\ Len(main.simulation_results.v) = MainSim
    /\ files.simulation_results.isNone
    /\ files.optimal_portfolio.isNone

\* C8: every step of run_monte_carlo and every call of optimize_portfolio,
\* returning or raising, leaves the instance (tickers, returns_data,
\* avg_returns, cov_matrix, and the set of its attributes) as it was.
C8_OnlyFetchChangesInstance ==
    [][ret'.op \in {"run_monte_carlo", "optimize_portfolio"} => self' = self]_vars

\* C8 witness: with statistics installed, a run_monte_carlo call has returned
\* rows and the statistics are those fetch_data installed.
C8_Witness ==
    /\ Returned("run_monte_carlo")
    /\ Len(ret.value.v) >= 1
    /\ ~self.avg_returns.isNone
    /\ \E start_date \in StartDates, end_date \in 1..(MaxDate + 1) :
           self = fetch_data(Construct(self.tickers, PortfolioSize), start_date, end_date)

\* C9: for every risk_free_rate, the Sharpe ratio optimize_portfolio reports
\* for its point, and the objective value at every point the solver
\* evaluated, are the (negated) Sharpe ratio a run_monte_carlo trial reports
\* for the same weights: return / volatility, no rate subtracted.
C9_OneSharpeConvention ==
    Returned("optimize_portfolio")
    => /\ ret.value.v.sharpe_ratio = Score(self, ret.trace.x).row.sharpe_ratio
       /\ ret.value.v.sharpe_ratio =
              FDiv(ret.value.v.return, ret.value.v.volatility)
       /\ \A e \in ret.trace.evals :
              e.f = FNeg(Score(self, e.w).row.sharpe_ratio)

\* C9 witness: optimize_portfolio was called with a nonzero risk_free_rate
\* and returned a finite, nonzero Sharpe ratio.
C9_Witness ==
    /\ Returned("optimize_portfolio")
    /\ ret.args.risk_free_rate # Fin(0)
    /\ IsFin(ret.value.v.sharpe_ratio)
    /\ ret.value.v.sharpe_ratio # Fin(0)

\* C10: run_monte_carlo and optimize_portfolio return a result only once
\* fetch_data has installed avg_returns and cov_matrix.
C10_NoResultBeforeFetch ==
    (Returned("run_monte_carlo") \/ Returned("optimize_portfolio"))
    => (~self.avg_returns.isNone /\ ~self.cov_matrix.isNone)

====
